---- MODULE Spec2Model ----
(***************************************************************************)
(* Barge-in coordination of samples/async/main.py.                         *)
(*                                                                         *)
(* Two threads share the state of MyRealtimeEventHandler:                  *)
(*   - the asyncio event loop, which runs main(), dispatches the session   *)
(*     events to the on_* coroutines of MyRealtimeEventHandler and runs    *)
(*     the coroutines handed over with asyncio.run_coroutine_threadsafe;   *)
(*   - the capture thread of AudioCapture, which calls the methods of      *)
(*     MyAudioCaptureEventHandler (send_audio_data, on_speech_start,       *)
(*     on_speech_end) directly.                                            *)
(* A handler of the event loop contains no await, so no other task of the  *)
(* loop runs inside it; the capture thread can run between any two of its  *)
(* statements, and the loop between any two statements of the capture      *)
(* thread.                                                                 *)
(***************************************************************************)
EXTENDS Integers, Sequences, FiniteSets, TLC

(* ------------------------------ bounds --------------------------------- *)

\* Session events dispatched to MyRealtimeEventHandler plus calls the capture
\* thread makes into MyAudioCaptureEventHandler, in one run.
MaxCalls == 4

(* ------------------------------ values --------------------------------- *)

\* Python's None, and a present value x.
None == << >>
Some(x) == << x >>

\* audio_end_ms=1000 of truncate_response.
AudioEndMs == 1000

\* item_id values a ResponseAudioDelta may carry (None: field absent).
ItemIds == { None, Some("A"), Some("B") }

\* content_index values a ResponseAudioDelta may carry (None: field absent).
ContentIndexes == { None, Some(0), Some(1) }

\* The base64 alphabet, value i-1 at position i.
B64Alphabet ==
    << "A","B","C","D","E","F","G","H","I","J","K","L","M","N","O","P",
       "Q","R","S","T","U","V","W","X","Y","Z","a","b","c","d","e","f",
       "g","h","i","j","k","l","m","n","o","p","q","r","s","t","u","v",
       "w","x","y","z","0","1","2","3","4","5","6","7","8","9","+","/" >>

B64Chars == { B64Alphabet[i] : i \in 1..64 }

B64Value(c) == (CHOOSE i \in 1..64 : B64Alphabet[i] = c) - 1

\* base64.b64decode(s) in its default, non-validating mode: characters outside
\* the alphabet are skipped, a pad that completes a quad ends the input, and
\* input that ends inside a quad raises binascii.Error.  s is a sequence of
\* one-character strings; the result is [ok, bytes].
RECURSIVE a2b_base64(_, _, _, _, _, _)
a2b_base64(s, i, quad_pos, leftchar, pads, out) ==
    IF i > Len(s)
    THEN [ok |-> quad_pos = 0, bytes |-> out]
    ELSE LET c == s[i] IN
         IF c = "="
         THEN IF quad_pos >= 2 /\ quad_pos + pads + 1 >= 4
              THEN [ok |-> TRUE, bytes |-> out]
              ELSE a2b_base64(s, i + 1, quad_pos, leftchar, pads + 1, out)
         ELSE IF c \notin B64Chars
         THEN a2b_base64(s, i + 1, quad_pos, leftchar, pads, out)
         ELSE LET v == B64Value(c) IN
              CASE quad_pos = 0 ->
                     a2b_base64(s, i + 1, 1, v, 0, out)
                [] quad_pos = 1 ->
                     a2b_base64(s, i + 1, 2, v % 16, 0,
                                Append(out, (leftchar * 4 + v \div 16) % 256))
                [] quad_pos = 2 ->
                     a2b_base64(s, i + 1, 3, v % 4, 0,
                                Append(out, (leftchar * 16 + v \div 4) % 256))
                [] OTHER ->
                     a2b_base64(s, i + 1, 0, 0, 0,
                                Append(out, (leftchar * 64 + v) % 256))

b64decode(s) == a2b_base64(s, 1, 0, 0, 0, << >>)

\* delta values a ResponseAudioDelta may carry: the field absent, base64 of
\* b"x", and a string cut inside a quad (incorrect padding).
Deltas == { None, Some(<< "e", "A", "=", "=" >>), Some(<< "e", "A" >>) }

\* Mutant: `if delta_audio is not None:`.
IsNotNone(delta) == delta # None

\* `if delta_audio:` -- None and the empty string are falsy.
Truthy(delta) == delta # None /\ delta[1] # << >>

ResponseAudioDelta(item_id, content_index, delta) ==
    [ kind |-> "response.audio.delta", item_id |-> item_id,
      content_index |-> content_index, delta |-> delta ]

\* The ResponseAudioDelta events delivered: two parts of two items with every
\* delta, events lacking the item_id or the content_index, and one whose
\* delta is the empty string.
AudioDeltaEvents ==
    { ResponseAudioDelta(Some("A"), Some(0), d) : d \in Deltas }
    \cup { ResponseAudioDelta(Some("B"), Some(1), d) : d \in Deltas }
    \cup { ResponseAudioDelta(None, Some(0), Some(<< "e", "A", "=", "=" >>)),
           ResponseAudioDelta(Some("A"), None, Some(<< "e", "A", "=", "=" >>)),
           ResponseAudioDelta(Some("A"), Some(0), Some(<< >>)) }

\* The event kinds whose handlers only log.
LoggedKinds ==
    { "error", "input_audio_buffer.speech_stopped", "input_audio_buffer.committed",
      "conversation.item.created", "response.created", "response.content_part.added",
      "response.audio_transcript.delta", "rate_limits.updated",
      "conversation.item.input_audio_transcription.completed",
      "response.audio_transcript.done", "response.content_part.done",
      "response.output_item.done", "response.done", "session.created",
      "session.updated", "input_audio_buffer.speech_started",
      "response.output_item.added", "response.function_call_arguments.delta",
      "response.function_call_arguments.done", "unhandled" }

(* ------------------------------- state --------------------------------- *)

VARIABLES
    \* main()
    mainPc,                       \* position of the main coroutine
    api_key,                      \* main's local: None until a key is read
    started,                      \* how `await client.start()` ended, once it has
    audio_player, client, audio_capture,   \* main's locals: None or constructed
    closed,                       \* collaborators main has called close() /
                                  \* stop() on, whether the call raised or not
    \* MyRealtimeEventHandler
    handler_client,               \* self.client
    current_item_id,
    current_audio_content_index,
    is_audio_playing,             \* self._is_audio_playing
    \* MyAudioCaptureEventHandler
    cancelled,
    \* the event loop thread
    loopPc,                       \* position inside the running event handler
    loopEv,                       \* the event being handled
    loopQueue,                    \* coroutines handed over, not yet run
    sent,                         \* commands the client has sent, in order
    \* the capture thread
    capPc,                        \* position inside the running callback
    l_item_id, l_content_index,   \* locals of on_speech_start
    capCall,                      \* the running/last callback
    capSaw,                       \* what is_audio_playing() returned at line 67
    capIssued,                    \* commands issued by the running/last callback
    \* AudioPlayer
    playback,                     \* calls the player has received, in order
    \* history
    audioPhase,                   \* the audio events handled since the last
                                  \* ResponseAudioDone: see AfterDelta
    nEvents, nSignals,            \* session events dispatched, callbacks started
    lastDelta,                    \* item_id and content_index of the last
                                  \* ResponseAudioDelta dispatched, if any
    interrupted                   \* an on_speech_start has interrupted the
                                  \* playback, and the loop has taken no step
                                  \* of on_response_audio_delta since

vars == << mainPc, api_key, started, audio_player, client, audio_capture, closed,
           handler_client, current_item_id, current_audio_content_index,
           is_audio_playing, cancelled, loopPc, loopEv, loopQueue, sent,
           capPc, l_item_id, l_content_index, capCall, capSaw, capIssued, playback,
           audioPhase, nEvents, nSignals, lastDelta, interrupted >>

mainVars == << mainPc, api_key, started, audio_player, client, audio_capture, closed, handler_client >>
handlerVars == << current_item_id, current_audio_content_index, is_audio_playing >>
capVars == << capPc, l_item_id, l_content_index, capCall, capSaw, capIssued, cancelled, nSignals >>

(* ------------------------------ commands ------------------------------- *)

\* Calls on RealtimeAIClient.
ClearInputAudioBuffer == [op |-> "clear_input_audio_buffer"]
CancelResponse == [op |-> "cancel_response"]
GenerateResponse == [op |-> "generate_response"]
SendAudio == [op |-> "send_audio"]
TruncateResponse(item_id, content_index, audio_end_ms) ==
    [op |-> "truncate_response", item_id |-> item_id,
     content_index |-> content_index, audio_end_ms |-> audio_end_ms]

\* Calls on AudioPlayer.
EnqueueAudioData(bytes) == [op |-> "enqueue_audio_data", data |-> bytes]
DrainAndRestart(clear_buffer) == [op |-> "drain_and_restart", clear_buffer |-> clear_buffer]

\* The default of AudioPlayer.drain_and_restart's clear_buffer parameter.
DefaultClearBuffer == FALSE

\* asyncio.run_coroutine_threadsafe(coro, loop): the coroutine is appended to
\* the loop's ready queue (call_soon_threadsafe) and runs there later, in
\* FIFO order.
run_coroutine_threadsafe(queue, cmd) == Append(queue, cmd)

(* ------------------------------- Init ---------------------------------- *)

\* No collaborator constructed, nothing handled.  The handler fields hold the
\* values MyRealtimeEventHandler.__init__ and MyAudioCaptureEventHandler.__init__
\* give them.  Init: main() entered.
Fresh ==
    /\ api_key = None
    /\ started = None
    /\ audio_player = None /\ client = None /\ audio_capture = None
    /\ closed = {}
    /\ handler_client = None
    /\ current_item_id = None
    /\ current_audio_content_index = None
    /\ is_audio_playing = FALSE
    /\ cancelled = FALSE
    /\ loopPc = "idle" /\ loopEv = None
    /\ loopQueue = << >> /\ sent = << >>
    /\ capPc = "idle" /\ l_item_id = None /\ l_content_index = None
    /\ capCall = "none" /\ capSaw = FALSE /\ capIssued = << >>
    /\ playback = << >>
    /\ audioPhase = "start"
    /\ nEvents = 0 /\ nSignals = 0
    /\ lastDelta = None
    /\ interrupted = FALSE

Init == mainPc = "get_key" /\ Fresh

(* ------------------------------- main() -------------------------------- *)

\* The main coroutine is suspended at an await: the loop runs other tasks.
LoopRunning == mainPc \in {"start_client", "wait", "stop_client"}

\* The capture thread delivers callbacks (one in progress runs to its end).
CaptureRunning == audio_capture # None /\ "audio_capture" \notin closed

\* main() runs on the event loop: never inside an event handler.
MainStep(from) == mainPc = from /\ loopPc = "idle"

\* api_key = os.getenv(...), main() going on at absent_pc when there is none.
GetKey(absent_pc) ==
    /\ MainStep("get_key")
    /\ \E key \in {None, Some("key")} :
         /\ api_key' = key
         /\ mainPc' = IF key = None THEN absent_pc ELSE "construct"
    /\ UNCHANGED << started, audio_player, client, audio_capture, closed,
                    handler_client, handlerVars, capVars, loopPc, loopEv,
                    loopQueue, sent, playback, audioPhase, nEvents, lastDelta,
                    interrupted >>

\* Mutant: the key is not checked.
Main_GetKey_unchecked == GetKey("construct")

\* lines 237-240: if not api_key: return  (the finally block runs)
Main_GetKey == GetKey("close_player")

\* AudioPlayer(), MyRealtimeEventHandler(audio_player), RealtimeAIClient(...),
\* event_handler.set_client(client), then `await client.start()` begins.
Main_Construct ==
    /\ MainStep("construct")
    /\ audio_player' = Some("AudioPlayer")
    /\ client' = Some("RealtimeAIClient")
    /\ handler_client' = Some("RealtimeAIClient")
    /\ mainPc' = "start_client"
    /\ UNCHANGED << api_key, started, audio_capture, closed, handlerVars, capVars, loopPc, loopEv,
                    loopQueue, sent, playback, audioPhase, nEvents, lastDelta, interrupted >>

\* `await client.start()` returns, or raises (caught by `except Exception`).
Main_StartClient ==
    /\ MainStep("start_client")
    /\ \E returned \in BOOLEAN :
         /\ started' = Some(returned)
         /\ mainPc' = IF returned THEN "create_capture" ELSE "close_player"
    /\ UNCHANGED << api_key, audio_player, client, audio_capture, closed, handler_client,
                    handlerVars, capVars, loopPc, loopEv, loopQueue, sent,
                    playback, audioPhase, nEvents, lastDelta, interrupted >>

\* MyAudioCaptureEventHandler(...), AudioCapture(...), then
\* `await asyncio.Event().wait()` begins.
Main_CreateCapture ==
    /\ MainStep("create_capture")
    /\ audio_capture' = Some("AudioCapture")
    /\ mainPc' = "wait"
    /\ UNCHANGED << api_key, started, audio_player, client, closed, handler_client,
                    handlerVars, capVars, loopPc, loopEv, loopQueue, sent,
                    playback, audioPhase, nEvents, lastDelta, interrupted >>

\* The wait is interrupted (Ctrl+C): control goes to the finally block.
Main_Interrupt ==
    /\ MainStep("wait")
    /\ mainPc' = "close_player"
    /\ UNCHANGED << api_key, started, audio_player, client, audio_capture, closed, handler_client,
                    handlerVars, capVars, loopPc, loopEv, loopQueue, sent,
                    playback, audioPhase, nEvents, lastDelta, interrupted >>

\* finally: if audio_player: audio_player.close()
\* The call is in no try block: when it raises, the exception leaves main().
Main_ClosePlayer ==
    /\ MainStep("close_player")
    /\ IF audio_player # None
       THEN /\ closed' = closed \cup {"audio_player"}
            /\ \E raises \in BOOLEAN :
                 mainPc' = IF raises THEN "raised" ELSE "close_capture"
       ELSE /\ closed' = closed
            /\ mainPc' = "close_capture"
    /\ UNCHANGED << api_key, started, audio_player, client, audio_capture, handler_client,
                    handlerVars, capVars, loopPc, loopEv, loopQueue, sent,
                    playback, audioPhase, nEvents, lastDelta, interrupted >>

\* The statement of the finally block that follows audio_capture.close():
\* `if client:` enters the try block with `await client.stop()`.
AfterCloseCapture == IF client # None THEN "stop_client" ELSE "exit"

\* finally: if audio_capture: audio_capture.close()
\* The call is in no try block: when it raises, the exception leaves main().
Main_CloseCapture ==
    /\ MainStep("close_capture")
    /\ IF audio_capture # None
       THEN /\ closed' = closed \cup {"audio_capture"}
            /\ \E raises \in BOOLEAN :
                 mainPc' = IF raises THEN "raised" ELSE AfterCloseCapture
       ELSE /\ closed' = closed
            /\ mainPc' = AfterCloseCapture
    /\ UNCHANGED << api_key, started, audio_player, client, audio_capture, handler_client,
                    handlerVars, capVars, loopPc, loopEv, loopQueue, sent,
                    playback, audioPhase, nEvents, lastDelta, interrupted >>

\* finally: `await client.stop()` returns, or raises (caught and logged).
Main_StopClient ==
    /\ MainStep("stop_client")
    /\ closed' = closed \cup {"client"}
    /\ mainPc' = "exit"
    /\ UNCHANGED << api_key, started, audio_player, client, audio_capture, handler_client,
                    handlerVars, capVars, loopPc, loopEv, loopQueue, sent,
                    playback, audioPhase, nEvents, lastDelta, interrupted >>

(* ----------------------- MyRealtimeEventHandler ------------------------ *)

\* The delta of event e is present and decodes.
Decodes(e) == Truthy(e.delta) /\ b64decode(e.delta[1]).ok

\* The delta of event e is present and b64decode raises on it.
DecodeFails(e) == Truthy(e.delta) /\ ~b64decode(e.delta[1]).ok

\* audioPhase once the ResponseAudioDelta e has been handled.  "start": no
\* audio event handled yet; "done": the last one handled was a
\* ResponseAudioDone; "decoded": since the start or the last done, a delta
\* that decoded was handled; "delta": since then, only deltas that did not.
AfterDelta(e) ==
    IF Decodes(e) \/ audioPhase = "decoded" THEN "decoded" ELSE "delta"

\* A session event can be dispatched: the loop is between tasks.
CanDispatch == loopPc = "idle" /\ nEvents + nSignals < MaxCalls

\* set_client(client)
set_client(c) ==
    /\ loopPc = "idle"
    /\ handler_client' = c
    /\ UNCHANGED << mainPc, api_key, started, audio_player, client, audio_capture, closed,
                    handlerVars, capVars, loopPc, loopEv, loopQueue, sent,
                    playback, audioPhase, nEvents, lastDelta, interrupted >>

\* on_response_audio_delta, line 145: self.current_item_id = event.item_id
on_response_audio_delta(event) ==
    /\ CanDispatch
    /\ nEvents' = nEvents + 1
    /\ loopEv' = event
    /\ current_item_id' = event.item_id
    /\ loopPc' = "delta_content_index"
    /\ lastDelta' = Some(<< event.item_id, event.content_index >>)
    /\ interrupted' = FALSE
    /\ UNCHANGED << mainVars, current_audio_content_index, is_audio_playing,
                    capVars, loopQueue, sent, playback, audioPhase >>

\* on_response_audio_delta at line 146, current_audio_content_index
\* becoming content_index.
DeltaContentIndex(content_index) ==
    /\ loopPc = "delta_content_index"
    /\ current_audio_content_index' = content_index
    /\ loopPc' = "handle_audio_delta"
    /\ interrupted' = FALSE
    /\ UNCHANGED << mainVars, current_item_id, is_audio_playing, capVars,
                    loopEv, loopQueue, sent, playback, audioPhase, nEvents, lastDelta >>

\* Mutant: only the item id is recorded.
on_response_audio_delta_content_index_kept ==
    DeltaContentIndex(current_audio_content_index)

\* on_response_audio_delta, line 146:
\* self.current_audio_content_index = event.content_index
on_response_audio_delta_content_index ==
    DeltaContentIndex(loopEv.content_index)

\* handle_audio_delta, lines 215-219 and 221-224: decode and enqueue; a
\* missing delta or a decode error ends the handler.
handle_audio_delta ==
    /\ loopPc = "handle_audio_delta"
    /\ LET delta_audio == loopEv.delta IN
       IF Truthy(delta_audio)
       THEN LET audio_bytes == b64decode(delta_audio[1]) IN
            IF audio_bytes.ok
            THEN /\ playback' = Append(playback, EnqueueAudioData(audio_bytes.bytes))
                 /\ loopPc' = "set_audio_playing"
                 /\ UNCHANGED audioPhase
            ELSE /\ loopPc' = "idle"
                 /\ audioPhase' = AfterDelta(loopEv)
                 /\ UNCHANGED playback
       ELSE /\ loopPc' = "idle"
            /\ audioPhase' = AfterDelta(loopEv)
            /\ UNCHANGED playback
    /\ loopEv' = IF loopPc' = "idle" THEN None ELSE loopEv
    /\ interrupted' = FALSE
    /\ UNCHANGED << mainVars, handlerVars, capVars, loopQueue, sent, nEvents, lastDelta >>

\* handle_audio_delta, line 220: self._is_audio_playing = True
handle_audio_delta_set_playing ==
    /\ loopPc = "set_audio_playing"
    /\ is_audio_playing' = TRUE
    /\ loopPc' = "idle"
    /\ audioPhase' = AfterDelta(loopEv)
    /\ loopEv' = None
    /\ interrupted' = FALSE
    /\ UNCHANGED << mainVars, current_item_id, current_audio_content_index,
                    capVars, loopQueue, sent, playback, nEvents, lastDelta >>

\* on_response_audio_done up to line 166, leaving _is_audio_playing at
\* playing_after.
ResponseAudioDone(event, playing_after) ==
    /\ CanDispatch
    /\ nEvents' = nEvents + 1
    /\ loopEv' = event
    /\ is_audio_playing' = playing_after
    /\ loopPc' = "audio_done_drain"
    /\ UNCHANGED << mainVars, current_item_id, current_audio_content_index,
                    capVars, loopQueue, sent, playback, audioPhase, lastDelta, interrupted >>

\* Mutant: the status update left out (as in on_response_done).
on_response_audio_done_status_kept(event) ==
    ResponseAudioDone(event, is_audio_playing)

\* Mutant: the status update made without the `if self.client:` guard.
on_response_audio_done_unguarded(event) ==
    ResponseAudioDone(event, FALSE)

\* on_response_audio_done, lines 161-166:
\* if self.client: self._is_audio_playing = False
on_response_audio_done(event) ==
    ResponseAudioDone(event, IF handler_client # None THEN FALSE ELSE is_audio_playing)

\* on_response_audio_done, line 167: self._audio_player.drain_and_restart()
on_response_audio_done_drain ==
    /\ loopPc = "audio_done_drain"
    /\ playback' = Append(playback, DrainAndRestart(DefaultClearBuffer))
    /\ loopPc' = "idle"
    /\ audioPhase' = "done"
    /\ loopEv' = None
    /\ UNCHANGED << mainVars, handlerVars, capVars, loopQueue, sent, nEvents, lastDelta, interrupted >>

\* A handler that only logs is entered, _is_audio_playing being playing_after
\* once it has run.
LoggedEvent(event, playing_after) ==
    /\ CanDispatch
    /\ event.kind \in LoggedKinds
    /\ nEvents' = nEvents + 1
    /\ loopPc' = "logging"
    /\ is_audio_playing' = playing_after
    /\ UNCHANGED << mainVars, current_item_id, current_audio_content_index,
                    capVars, loopEv, loopQueue, sent, playback, audioPhase,
                    lastDelta, interrupted >>

\* Mutant: the assignment commented out in on_response_done is made.
on_logged_event_stops_playing(event) == LoggedEvent(event, FALSE)

\* on_error and the other handlers that only log.
on_logged_event(event) == LoggedEvent(event, is_audio_playing)

\* The logging handler returns.
on_logged_event_return ==
    /\ loopPc = "logging"
    /\ loopPc' = "idle"
    /\ UNCHANGED << mainVars, handlerVars, capVars, loopEv, loopQueue, sent,
                    playback, audioPhase, nEvents, lastDelta, interrupted >>

\* The loop runs the oldest coroutine handed over by the capture thread:
\* the client sends the command.
run_scheduled_coroutine ==
    /\ loopPc = "idle"
    /\ loopQueue # << >>
    /\ sent' = Append(sent, Head(loopQueue))
    /\ loopQueue' = Tail(loopQueue)
    /\ UNCHANGED << mainVars, handlerVars, capVars, loopPc, loopEv, playback,
                    audioPhase, nEvents, lastDelta, interrupted >>

(* --------------------- MyAudioCaptureEventHandler ---------------------- *)

\* The capture thread can start a callback.
CanSignal == capPc = "idle" /\ nEvents + nSignals < MaxCalls

\* send_audio_data(audio_data)
send_audio_data ==
    /\ CanSignal
    /\ nSignals' = nSignals + 1
    /\ capCall' = "send_audio_data"
    /\ loopQueue' = run_coroutine_threadsafe(loopQueue, SendAudio)
    /\ capIssued' = << SendAudio >>
    /\ UNCHANGED << mainVars, handlerVars, capPc, l_item_id, l_content_index,
                    capSaw, cancelled, loopPc, loopEv, sent, playback, audioPhase, nEvents, lastDelta, interrupted >>

\* on_speech_start, line 67: if self.event_handler.is_audio_playing():
on_speech_start ==
    /\ CanSignal
    /\ nSignals' = nSignals + 1
    /\ capCall' = "on_speech_start"
    /\ capSaw' = is_audio_playing
    /\ capIssued' = << >>
    /\ capPc' = IF is_audio_playing THEN "clear_input_audio_buffer" ELSE "not_playing"
    /\ UNCHANGED << mainVars, handlerVars, l_item_id, l_content_index, cancelled,
                    loopPc, loopEv, loopQueue, sent, playback, audioPhase, nEvents, lastDelta, interrupted >>

\* on_speech_start, line 71
on_speech_start_clear ==
    /\ capPc = "clear_input_audio_buffer"
    /\ loopQueue' = run_coroutine_threadsafe(loopQueue, ClearInputAudioBuffer)
    /\ capIssued' = Append(capIssued, ClearInputAudioBuffer)
    /\ capPc' = "cancel_response"
    /\ UNCHANGED << mainVars, handlerVars, l_item_id, l_content_index, capCall,
                    capSaw, cancelled, nSignals, loopPc, loopEv, sent, playback,
                    audioPhase, nEvents, lastDelta, interrupted >>

\* on_speech_start, lines 74-75
on_speech_start_cancel ==
    /\ capPc = "cancel_response"
    /\ loopQueue' = run_coroutine_threadsafe(loopQueue, CancelResponse)
    /\ capIssued' = Append(capIssued, CancelResponse)
    /\ cancelled' = TRUE
    /\ capPc' = "get_item_id"
    /\ UNCHANGED << mainVars, handlerVars, l_item_id, l_content_index, capCall,
                    capSaw, nSignals, loopPc, loopEv, sent, playback, audioPhase, nEvents, lastDelta, interrupted >>

\* on_speech_start, line 77
on_speech_start_get_item_id ==
    /\ capPc = "get_item_id"
    /\ l_item_id' = current_item_id
    /\ capPc' = "get_content_index"
    /\ UNCHANGED << mainVars, handlerVars, l_content_index, capCall, capSaw,
                    capIssued, cancelled, nSignals, loopPc, loopEv, loopQueue,
                    sent, playback, audioPhase, nEvents, lastDelta, interrupted >>

\* on_speech_start, line 78
on_speech_start_get_content_index ==
    /\ capPc = "get_content_index"
    /\ l_content_index' = current_audio_content_index
    /\ capPc' = "truncate_response"
    /\ UNCHANGED << mainVars, handlerVars, l_item_id, capCall, capSaw,
                    capIssued, cancelled, nSignals, loopPc, loopEv, loopQueue,
                    sent, playback, audioPhase, nEvents, lastDelta, interrupted >>

\* on_speech_start, line 80
on_speech_start_truncate ==
    /\ capPc = "truncate_response"
    /\ LET cmd == TruncateResponse(l_item_id, l_content_index, AudioEndMs) IN
         /\ loopQueue' = run_coroutine_threadsafe(loopQueue, cmd)
         /\ capIssued' = Append(capIssued, cmd)
    /\ capPc' = "drain_and_restart"
    /\ UNCHANGED << mainVars, handlerVars, l_item_id, l_content_index, capCall,
                    capSaw, cancelled, nSignals, loopPc, loopEv, sent, playback,
                    audioPhase, nEvents, lastDelta, interrupted >>

\* The capture thread calls audio_player.drain_and_restart(clear_buffer).
SpeechStartDrain(clear_buffer) ==
    /\ capPc = "drain_and_restart"
    /\ playback' = Append(playback, DrainAndRestart(clear_buffer))
    /\ capIssued' = Append(capIssued, DrainAndRestart(clear_buffer))
    /\ capPc' = "idle"
    /\ interrupted' = TRUE
    /\ UNCHANGED << mainVars, handlerVars, l_item_id, l_content_index, capCall,
                    capSaw, cancelled, nSignals, loopPc, loopEv, loopQueue, sent,
                    audioPhase, nEvents, lastDelta >>

\* Mutant: the restart called without clear_buffer=True.
on_speech_start_drain_default == SpeechStartDrain(DefaultClearBuffer)

\* on_speech_start, line 83
on_speech_start_drain == SpeechStartDrain(TRUE)

\* The else branch of on_speech_start, leaving self.cancelled at cancelled_after.
SpeechStartNotPlaying(cancelled_after) ==
    /\ capPc = "not_playing"
    /\ cancelled' = cancelled_after
    /\ capPc' = "idle"
    /\ UNCHANGED << mainVars, handlerVars, l_item_id, l_content_index, capCall,
                    capSaw, capIssued, nSignals, loopPc, loopEv, loopQueue, sent,
                    playback, audioPhase, nEvents, lastDelta, interrupted >>

\* Mutant: the else branch only logs.
on_speech_start_not_playing_logs_only == SpeechStartNotPlaying(cancelled)

\* on_speech_start, lines 85-86
on_speech_start_not_playing == SpeechStartNotPlaying(FALSE)

\* on_speech_end handing the coroutines cmds to the loop.
SpeechEnd(cmds) ==
    /\ CanSignal
    /\ nSignals' = nSignals + 1
    /\ capCall' = "on_speech_end"
    /\ loopQueue' = loopQueue \o cmds
    /\ capIssued' = cmds
    /\ UNCHANGED << mainVars, handlerVars, capPc, l_item_id, l_content_index,
                    capSaw, cancelled, loopPc, loopEv, sent, playback, audioPhase, nEvents, lastDelta, interrupted >>

\* Mutant: no response requested after an interruption.
on_speech_end_unless_cancelled ==
    SpeechEnd(IF cancelled THEN << >> ELSE << GenerateResponse >>)

\* on_speech_end, line 94
on_speech_end == SpeechEnd(<< GenerateResponse >>)

(* --------------------------- specifications ---------------------------- *)

AudioDoneEvent == [kind |-> "response.audio.done"]
LoggedEvents == [kind : LoggedKinds]

\* The program: main() with the event loop and the capture thread.
Next ==
    \/ Main_GetKey
    \/ Main_Construct
    \/ Main_StartClient
    \/ Main_CreateCapture
    \/ Main_Interrupt
    \/ Main_ClosePlayer
    \/ Main_CloseCapture
    \/ Main_StopClient
    \/ LoopRunning /\ \E event \in AudioDeltaEvents : on_response_audio_delta(event)
    \/ on_response_audio_delta_content_index
    \/ handle_audio_delta
    \/ handle_audio_delta_set_playing
    \/ LoopRunning /\ on_response_audio_done(AudioDoneEvent)
    \/ on_response_audio_done_drain
    \/ LoopRunning /\ \E event \in LoggedEvents : on_logged_event(event)
    \/ on_logged_event_return
    \/ LoopRunning /\ run_scheduled_coroutine
    \/ CaptureRunning /\ send_audio_data
    \/ CaptureRunning /\ on_speech_start
    \/ on_speech_start_clear
    \/ on_speech_start_cancel
    \/ on_speech_start_get_item_id
    \/ on_speech_start_get_content_index
    \/ on_speech_start_truncate
    \/ on_speech_start_drain
    \/ on_speech_start_not_playing
    \/ CaptureRunning /\ on_speech_end

Spec == Init /\ [][Next]_vars

\* The handler object on its own: constructed, then driven through its
\* public methods by any caller, set_client included.
InitHandler == mainPc = "handler" /\ Fresh

NextHandler ==
    \/ set_client(Some("RealtimeAIClient"))
    \/ \E event \in AudioDeltaEvents : on_response_audio_delta(event)
    \/ on_response_audio_delta_content_index
    \/ handle_audio_delta
    \/ handle_audio_delta_set_playing
    \/ on_response_audio_done(AudioDoneEvent)
    \/ on_response_audio_done_drain
    \/ \E event \in LoggedEvents : on_logged_event(event)
    \/ on_logged_event_return

SpecHandler == InitHandler /\ [][NextHandler]_vars

(* ------------------------------- claims -------------------------------- *)

Last(seq) == seq[Len(seq)]

\* The positions of seq whose element satisfies Test.
Positions(seq, Test(_)) == { i \in 1..Len(seq) : Test(seq[i]) }

IsClear(c) == c.op = "clear_input_audio_buffer"
IsCancel(c) == c.op = "cancel_response"
IsTruncate(c) == c.op = "truncate_response"
IsInterruptDrain(c) == c = DrainAndRestart(TRUE)

\* Every command handed to the client so far: sent, then still queued.
Handed == sent \o loopQueue

\* on_speech_start has run to its end on the branch taken when audio plays.
InterruptionDone ==
    capCall = "on_speech_start" /\ capPc = "idle" /\ capSaw

\* on_speech_start has run to its end on the other branch.
NoInterruptionDone ==
    capCall = "on_speech_start" /\ capPc = "idle" /\ ~capSaw

\* C1: an on_speech_start that found audio playing and read both ids set has
\* issued clear_input_audio_buffer, cancel_response, truncate_response(item,
\* index, 1000) and drain_and_restart(True), once each and in this order, has
\* set cancelled and has issued no generate_response; every truncate_response
\* handed to the client carries audio_end_ms = 1000.
C1_InterruptionCommands ==
    /\ (InterruptionDone /\ l_item_id # None /\ l_content_index # None)
         => /\ capIssued = << ClearInputAudioBuffer, CancelResponse,
                              TruncateResponse(l_item_id, l_content_index, 1000),
                              DrainAndRestart(TRUE) >>
            /\ cancelled = TRUE
    /\ \A i \in 1..Len(sent) : IsTruncate(sent[i]) => sent[i].audio_end_ms = 1000
    /\ \A i \in 1..Len(loopQueue) :
          IsTruncate(loopQueue[i]) => loopQueue[i].audio_end_ms = 1000

C1_Witness ==
    /\ InterruptionDone
    /\ l_item_id = Some("A") /\ l_content_index = Some(0)
    /\ Len(capIssued) = 4
    /\ \E i \in 1..Len(sent) : IsTruncate(sent[i])

\* C2: the k-th drain_and_restart(True) of the player is not executed before
\* the k-th clear_input_audio_buffer, cancel_response and truncate_response
\* have been sent, and the interruption commands are sent in rounds of
\* clear, cancel, truncate.
C2_RestartAfterSend ==
    LET drains == Cardinality(Positions(playback, IsInterruptDrain))
        clears == Positions(sent, IsClear)
        cancels == Positions(sent, IsCancel)
        truncs == Positions(sent, IsTruncate)
    IN  /\ drains <= Cardinality(clears)
        /\ drains <= Cardinality(cancels)
        /\ drains <= Cardinality(truncs)
        /\ \A i \in cancels : \E j \in clears : j < i
        /\ \A i \in truncs : \E j \in cancels : j < i

\* C3: no truncate_response is handed to the client with item_id or
\* content_index None.
C3_TruncateIdsSet ==
    \A i \in Positions(Handed, IsTruncate) :
        Handed[i].item_id # None /\ Handed[i].content_index # None

\* C4: the step that ends an on_speech_start which found audio playing
\* leaves _is_audio_playing false.
C4_InterruptionStopsPlaying ==
    [][ (capPc = "drain_and_restart" /\ capPc' = "idle") => ~is_audio_playing' ]_vars

IsDelta(e) == e.kind = "response.audio.delta"

\* A ResponseAudioDelta has been handled and no ResponseAudioDone after it.
DeltaSinceDone == audioPhase \in {"delta", "decoded"}

\* A ResponseAudioDelta whose delta decoded has been handled and no
\* ResponseAudioDone after it.
DecodedDeltaSinceDone == audioPhase = "decoded"

\* The last audio event handled is a ResponseAudioDone.
JustDone == audioPhase = "done"

\* The event loop is inside on_response_audio_done.
HandlingDone == loopPc = "audio_done_drain"

\* C5 as stated: between a ResponseAudioDelta and the next ResponseAudioDone
\* _is_audio_playing is true, and it is false after the done event.
C5_PlayingBetweenDeltaAndDone ==
    /\ (DeltaSinceDone /\ ~HandlingDone) => is_audio_playing
    /\ JustDone => ~is_audio_playing

\* C5, amended: between a ResponseAudioDelta whose delta decoded and the next
\* ResponseAudioDone _is_audio_playing is true, and it is false after the
\* done event.
C5_PlayingBetweenDecodedDeltaAndDone ==
    /\ (DecodedDeltaSinceDone /\ ~HandlingDone) => is_audio_playing
    /\ JustDone => ~is_audio_playing

C5_Witness ==
    /\ JustDone
    /\ playback = << EnqueueAudioData(<< 120 >>), DrainAndRestart(FALSE) >>
    /\ loopPc = "idle" /\ ~is_audio_playing

\* The event loop takes a step of the handler of event e.
HandlerStepOf(Test(_)) ==
    /\ loopPc' # loopPc
    /\ IF loopEv # None THEN Test(loopEv) ELSE loopEv' # None /\ Test(loopEv')

IsFailingDelta(e) == IsDelta(e) /\ DecodeFails(e)

\* C6: no step of the handling of a ResponseAudioDelta whose delta fails to
\* decode changes current_item_id, current_audio_content_index or
\* _is_audio_playing, or calls the player.
C6_DecodeFailureNoChange ==
    [][ HandlerStepOf(IsFailingDelta)
          => UNCHANGED << current_item_id, current_audio_content_index,
                          is_audio_playing, playback >> ]_vars

\* C7: an on_speech_start that finds no audio playing hands nothing to the
\* client, calls nothing on the player, leaves the handler's fields alone
\* and sets cancelled to False.
C7_NoInterruptionWhenIdle ==
    [][ /\ (capPc = "idle" /\ capPc' = "not_playing")
             => UNCHANGED << cancelled, handlerVars, loopQueue, sent, playback >>
        /\ (capPc = "not_playing" /\ capPc' = "idle")
             => /\ cancelled' = FALSE
                /\ capIssued' = << >>
                /\ UNCHANGED << handlerVars, loopQueue, sent, playback >> ]_vars

C7_Witness ==
    /\ NoInterruptionDone
    /\ ~cancelled
    /\ \E i \in 1..Len(Handed) : IsCancel(Handed[i])

\* C8: on_speech_end hands exactly one generate_response to the client,
\* nothing else, calls nothing on the player and changes no state of the
\* handlers.
C8_SpeechEndGenerates ==
    [][ (nSignals' # nSignals /\ capCall' = "on_speech_end")
          => /\ loopQueue' = Append(loopQueue, GenerateResponse)
             /\ UNCHANGED << sent, playback, handlerVars, cancelled >> ]_vars

C8_Witness ==
    /\ capCall = "on_speech_end"
    /\ is_audio_playing /\ cancelled
    /\ loopQueue # << >> /\ Last(loopQueue) = GenerateResponse

C10_SpeechStartAtomic ==
    [][ capPc \notin {"idle", "not_playing"} => loopPc' = loopPc ]_vars

\* main() is over: it returned, or an exception left it.
MainOver == mainPc \in {"exit", "raised"}

AllConstructed == audio_player # None /\ audio_capture # None /\ client # None

\* C11: when main() is over with the player, the capture and the client all
\* constructed, audio_player.close(), audio_capture.close() and client.stop()
\* have each been called, also when an earlier one of them raised.
C11_TeardownBestEffort ==
    (MainOver /\ AllConstructed)
        => closed = {"audio_player", "audio_capture", "client"}

\* C12: with no API key, main() constructs no collaborator, calls start,
\* close or stop on none, issues no command, and returns with no exception
\* leaving it.
C12_NoKeyNoCollaborators ==
    (mainPc # "get_key" /\ api_key = None)
        => /\ audio_player = None /\ client = None /\ audio_capture = None
           /\ closed = {}
           /\ mainPc \in {"close_player", "close_capture", "exit"}
           /\ Handed = << >> /\ playback = << >>

C12_Witness == mainPc = "exit" /\ api_key = None

\* C13: the handler of an error event, and of every other event kind than
\* response.audio.delta and response.audio.done, changes none of
\* _is_audio_playing, current_item_id, current_audio_content_index and
\* cancelled, hands no command to the client and calls nothing on the player.
C13_LoggedEventsOnlyLog ==
    [][ (loopPc' # loopPc /\ "logging" \in {loopPc, loopPc'})
          => UNCHANGED << handlerVars, cancelled, loopQueue, sent, playback >> ]_vars

C13_Witness ==
    /\ loopPc = "logging"
    /\ is_audio_playing /\ cancelled
    /\ current_item_id # None /\ current_audio_content_index # None

\* The event loop is between lines 145 and 146 of on_response_audio_delta.
BetweenIdAssignments == loopPc = "delta_content_index"

\* C14: except between the two assignments of on_response_audio_delta,
\* current_item_id and current_audio_content_index are the item_id and the
\* content_index of the most recent ResponseAudioDelta, and None when there
\* has been none, whatever the capture thread has done.
C14_IdsOfLastDelta ==
    ~BetweenIdAssignments
        => IF lastDelta = None
           THEN current_item_id = None /\ current_audio_content_index = None
           ELSE lastDelta[1] = << current_item_id, current_audio_content_index >>

C14_Witness ==
    /\ loopPc = "idle"
    /\ lastDelta = Some(<< Some("B"), Some(1) >>)
    /\ InterruptionDone /\ l_item_id = Some("A")
    /\ current_item_id = Some("B") /\ current_audio_content_index = Some(1)

IsEmptyDelta(e) == IsDelta(e) /\ e.delta \in { None, Some(<< >>) }

\* C15: _is_audio_playing goes from false to true only in the handler of a
\* ResponseAudioDelta whose delta is present and decodes, at the statement
\* reached by enqueueing the decoded bytes; and no step of the handler of a
\* ResponseAudioDelta whose delta is None or empty changes _is_audio_playing
\* or calls the player.
C15_PlayingSetAfterEnqueue ==
    [][ /\ (~is_audio_playing /\ is_audio_playing')
             => /\ loopPc = "set_audio_playing"
                /\ IsDelta(loopEv) /\ Decodes(loopEv)
        /\ (loopPc' = "set_audio_playing" /\ loopPc' # loopPc)
             => /\ IsDelta(loopEv) /\ Decodes(loopEv)
                /\ playback' = Append(playback,
                                 EnqueueAudioData(b64decode(loopEv.delta[1]).bytes))
                /\ UNCHANGED is_audio_playing
        /\ HandlerStepOf(IsEmptyDelta)
             => UNCHANGED << is_audio_playing, playback >> ]_vars

\* A delta that decoded has set the flag; then a delta with an empty string
\* was handled while the flag, lowered by a ResponseAudioDone, stayed low.
C15_Witness ==
    /\ loopPc = "handle_audio_delta"
    /\ loopEv # None /\ loopEv.delta = Some(<< >>)
    /\ ~is_audio_playing
    /\ playback = << EnqueueAudioData(<< 120 >>), DrainAndRestart(FALSE) >>

\* The item_id and content_index a ResponseAudioDelta can carry together.
DeltaIdPairs == { << e.item_id, e.content_index >> : e \in AudioDeltaEvents }

\* C16: the item_id and the content_index of every truncate_response handed
\* to the client are those of one ResponseAudioDelta.
C16_TruncateIdsFromOneDelta ==
    \A i \in Positions(Handed, IsTruncate) :
        << Handed[i].item_id, Handed[i].content_index >> \in DeltaIdPairs

\* A further on_speech_start is running: one has interrupted the playback
\* before, and no ResponseAudioDelta has been handled since.
FurtherSpeechStart ==
    interrupted /\ capCall = "on_speech_start" /\ capPc # "idle"

\* C17: an on_speech_start that follows an interrupting one, with no
\* ResponseAudioDelta handled in between, issues no clear_input_audio_buffer,
\* cancel_response, truncate_response or drain_and_restart.
C17_InterruptionOnce ==
    FurtherSpeechStart => capIssued = << >>

\* C18: once audio_player.close() has been called, the player receives no
\* enqueue_audio_data and no drain_and_restart.
C18_NoPlaybackAfterClose ==
    [][ "audio_player" \in closed => playback' = playback ]_vars

\* `await client.start()` has returned / has raised.
StartReturned == started = Some(TRUE)
StartRaised == started = Some(FALSE)

\* C19: the capture is constructed, and a command handed to the client, only
\* after client.start() has returned; and when client.start() has raised and
\* main() is over, no capture has been constructed, audio_player.close() and
\* client.stop() have been called, and main() returned.
C19_CaptureAfterStart ==
    /\ (audio_capture # None \/ Handed # << >>) => StartReturned
    /\ (StartRaised /\ mainPc \notin {"close_player", "close_capture", "stop_client"})
          => /\ audio_capture = None
             /\ closed = {"audio_player", "client"}
             /\ mainPc = "exit"

====
